---------------------------- MODULE Spec2Model ----------------------------
(***************************************************************************)
(* A model of the two plot classes of xplt:                                *)
(*   - PhaseSpacePlot.__init__  (src/xplot/phasespace.py)                  *)
(*   - iter_elements, KnlPlot.__init__, KnlPlot.update (src/xplt/line.py)  *)
(*                                                                         *)
(* Python strings are sequences of one-character strings, so that          *)
(* str.split is computed and not assumed.  Python lists and tuples are     *)
(* sequences; where the code produces a tuple (the abbreviation table)     *)
(* the entry carries tuple |-> TRUE.  Positions along a line are integers  *)
(* (multiples of one quantum), chosen so that every division the code      *)
(* makes is exact; floating point rounding is not modelled.                *)
(***************************************************************************)
EXTENDS Integers, Sequences, FiniteSets, TLC

VARIABLES
    \* ---- PhaseSpacePlot.__init__ ----
    pc,                  \* position in __init__: parse, sanitize, axes, artists, done;
                         \* when an exception left the call, the step that raised it
    args,                \* the arguments of the call
    kind,                \* self.kind, a list of entries [tuple, items]
    mean,                \* the local list mean after sanitizing
    std,                 \* the local list std after sanitizing
    percentiles,         \* self.percentiles
    naxes,               \* len(self.axflat)
    created,             \* number of axes created by plt.subplots in this call
    idx,                 \* next index of the loop over zip(self.kind, self.axflat)
    artists_scatter,     \* per subplot: scatter artist exists
    artists_mean,        \* per subplot: mean marker exists
    artists_std,         \* per subplot: std ellipse exists
    artists_percentiles, \* per subplot: number of percentile ellipses
    axlabel,             \* per axes: <<>> or the <<xlabel, ylabel>> coordinates set on it
    exc,                 \* the exception that left __init__, "none" if none
    \* ---- KnlPlot ----
    kpc,                 \* new, ready, raised
    kargs,               \* the arguments of KnlPlot(...)
    knl,                 \* self.knl, the list of orders
    S,                   \* self.S, the sampled positions
    artists,             \* len(self.artists)
    shown,               \* per order, per grid point: the data the artist holds
    yielded,             \* what iter_elements yielded in the last update
    lastLine,            \* the line of the last update, NoLine if none
    updated,             \* update calls so far: never, once, again (twice or more)
    kexc                 \* the exception that left KnlPlot.__init__

psVars == <<pc, args, kind, mean, std, percentiles, naxes, created, idx,
            artists_scatter, artists_mean, artists_std, artists_percentiles,
            axlabel, exc>>
knlVars == <<kpc, kargs, knl, S, artists, shown, yielded, lastLine, updated, kexc>>
vars == <<psVars, knlVars>>

(***************************************************************************)
(* Bounds of the model.                                                    *)
(***************************************************************************)
MaxStrLen == 5       \* longest kind string
MaxSubplots == 2     \* longest kind list, longest mean / std / percentiles list
MaxAxes == 3         \* longest list of axes passed as ax
MaxElems == 2        \* longest line

(***************************************************************************)
(* Strings.                                                                *)
(***************************************************************************)
\* the characters of the kind strings of the model
Alphabet == {"x", "y", ",", "-"}

Strs(n) == UNION {[1..k -> Alphabet] : k \in 0..n}

\* str.split(sep) with a one-character separator: the fields between the
\* separators, empty fields kept, at least one field.
RECURSIVE split(_, _)
split(s, sep) ==
    IF \A i \in 1..Len(s) : s[i] # sep
    THEN <<s>>
    ELSE LET i == CHOOSE j \in 1..Len(s) :
                      s[j] = sep /\ \A k \in 1..(j - 1) : s[k] # sep
         IN  <<SubSeq(s, 1, i - 1)>> \o split(SubSeq(s, i + 1, Len(s)), sep)

Repeat(n, v) == [i \in 1..n |-> v]

(***************************************************************************)
(* PhaseSpacePlot.__init__ : the kind mini-language.                       *)
(***************************************************************************)
abbreviationKeys == {<<"x">>, <<"y">>, <<"z">>, <<"X">>, <<"Y">>}

abbreviationsSwapped(k) ==
    CASE k = <<"x">> -> << <<"x">>, <<"y">> >>
      [] k = <<"y">> -> << <<"y">>, <<"p", "y">> >>
      [] k = <<"z">> -> << <<"z", "e", "t", "a">>, <<"d", "e", "l", "t", "a">> >>
      [] k = <<"X">> -> << <<"X">>, <<"P", "x">> >>
      [] k = <<"Y">> -> << <<"Y">>, <<"P", "y">> >>

abbreviations(k) ==
    CASE k = <<"x">> -> << <<"x">>, <<"p", "x">> >>
      [] k = <<"y">> -> << <<"y">>, <<"p", "y">> >>
      [] k = <<"z">> -> << <<"z", "e", "t", "a">>, <<"d", "e", "l", "t", "a">> >>
      [] k = <<"X">> -> << <<"X">>, <<"P", "x">> >>
      [] k = <<"Y">> -> << <<"Y">>, <<"P", "y">> >>

\* A kind argument is a string (isStr, s) or a list (l) of entries; an entry
\* is a string (str, s) or a list of coordinate names (l).
StrEntry(s) == [str |-> TRUE, s |-> s, l |-> <<>>]
ListEntry(l) == [str |-> FALSE, s |-> <<>>, l |-> l]
KindStr(s) == [isStr |-> TRUE, s |-> s, l |-> <<>>]
KindList(l) == [isStr |-> FALSE, s |-> <<>>, l |-> l]

\* lines 94-96: a string is split at the commas, anything else is list(kind)
kindEntries(k) ==
    IF k.isStr
    THEN LET f == split(k.s, ",") IN [i \in 1..Len(f) |-> StrEntry(f[i])]
    ELSE k.l

\* lines 98-102: one entry after the loop body, before the length check
parseEntry(e) ==
    IF e.str
    THEN LET parts == split(e.s, "-")
         IN  IF Len(parts) = 1 /\ parts[1] \in abbreviationKeys
             THEN [tuple |-> TRUE, items |-> abbreviations(parts[1])]
             ELSE [tuple |-> FALSE, items |-> parts]
    ELSE [tuple |-> FALSE, items |-> e.l]

\* lines 103-107: the length check sits inside the isinstance(kind[i], str) branch
entryRejected(e) == e.str /\ Len(parseEntry(e).items) # 2

\* lines 94-109
parseKind(k) ==
    LET es == kindEntries(k)
    IN  IF \E i \in 1..Len(es) : entryRejected(es[i])
        THEN [ok |-> FALSE, kind |-> <<>>]
        ELSE [ok |-> TRUE, kind |-> [i \in 1..Len(es) |-> parseEntry(es[i])]]


(***************************************************************************)
(* PhaseSpacePlot.__init__ : the arguments the model calls it with.        *)
(* particles is None (the call ends after the artists are created), and    *)
(* the keyword dictionaries are left at their defaults.                    *)
(***************************************************************************)
NameX == <<"x">>
NamePx == <<"p", "x">>
NameY == <<"y">>

\* coordinate lists given as entries of a kind list: zero to three names
CoordLists ==
    { <<>>, <<NameX>>, <<NamePx>>, <<NameX, NamePx>>, <<NameX, NameY>>,
      <<NameX, NameY, NamePx>> }

\* strings given as entries of a kind list
EntryStrs ==
    { <<"x">>, <<"p">>, <<>>, <<"x", "-", "y">>, <<"x", "-", "p", "x">>,
      <<"x", "-", "y", "-", "x">> }

Entries == {StrEntry(s) : s \in EntryStrs} \cup {ListEntry(l) : l \in CoordLists}

KindArgs ==
    {KindStr(s) : s \in Strs(MaxStrLen)}
    \cup {KindList(l) : l \in UNION {[1..k -> Entries] : k \in 0..MaxSubplots}}

\* a valid kind with n subplots, given as a nested list
PlainKind(n) == KindList(Repeat(n, ListEntry(<<NameX, NamePx>>)))

BoolLists == UNION {[1..k -> BOOLEAN] : k \in 0..MaxSubplots}

\* mean and std: a boolean, or a list of booleans
Scalar(b) == [scalar |-> TRUE, v |-> b, l |-> <<>>]
BoolList(l) == [scalar |-> FALSE, v |-> FALSE, l |-> l]
FlagArgs == {Scalar(b) : b \in BOOLEAN} \cup {BoolList(l) : l \in BoolLists}

\* percentiles: None, a list of numbers, or a list of lists of numbers.  The
\* empty list is one Python value; it is written here as the flat form.
PercNone == [form |-> "none", flat |-> <<>>, nested |-> <<>>]
PercFlat(l) == [form |-> "flat", flat |-> l, nested |-> <<>>]
PercNested(l) == [form |-> "nested", flat |-> <<>>, nested |-> l]
NumLists == {<<>>, <<50, 90>>}
PercArgs ==
    {PercNone, PercFlat(<<>>), PercFlat(<<50>>), PercFlat(<<50, 90>>)}
    \cup {PercNested(l) : l \in UNION {[1..k -> NumLists] : k \in 1..MaxSubplots}}

\* ax: None, one axes, or a non-empty list of axes
AxNone == [given |-> FALSE, scalar |-> FALSE, count |-> 0]
AxOne == [given |-> TRUE, scalar |-> TRUE, count |-> 1]
AxList(c) == [given |-> TRUE, scalar |-> FALSE, count |-> c]
AxArgs == {AxNone, AxOne} \cup {AxList(c) : c \in 1..MaxAxes}

\* grid: None or a tuple (ncol, nrow)
GridNone == [given |-> FALSE, ncol |-> 0, nrow |-> 0]
GridArgs == {GridNone} \cup {[given |-> TRUE, ncol |-> c, nrow |-> r] : c, r \in 1..2}

PlotArgs == {"auto", "scatter", "hist2d", "contour"}

Call(k, m, s, p, a, g, pl) ==
    [kind |-> k, mean |-> m, std |-> s, percentiles |-> p, ax |-> a, grid |-> g,
     plot |-> pl]

\* The calls of the model: every kind with the other arguments at their
\* defaults; with a plain kind, every mean and std with percentiles None or
\* flat, every mean and percentiles with std True, and every ax / grid / plot.
Calls ==
    {Call(k, Scalar(FALSE), Scalar(FALSE), PercNone, AxNone, GridNone, "auto") :
        k \in KindArgs}
    \cup {Call(PlainKind(n), m, s, p, AxNone, GridNone, "auto") :
            n \in 1..MaxSubplots, m \in FlagArgs, s \in FlagArgs,
            p \in {PercNone, PercFlat(<<50, 90>>)}}
    \cup {Call(PlainKind(n), m, Scalar(TRUE), p, AxNone, GridNone, "auto") :
            n \in 1..MaxSubplots, m \in FlagArgs, p \in PercArgs}
    \cup {Call(PlainKind(n), Scalar(FALSE), Scalar(FALSE), PercNone, a, g, pl) :
            n \in 1..MaxSubplots, a \in AxArgs, g \in GridArgs, pl \in PlotArgs}

(***************************************************************************)
(* PhaseSpacePlot.__init__ : the steps.                                    *)
(***************************************************************************)
Min(a, b) == IF a <= b THEN a ELSE b

\* an entry of a sanitized per-subplot percentiles list: None or a list
NoneOpt == [none |-> TRUE, val |-> <<>>]
SomeOpt(l) == [none |-> FALSE, val |-> l]
\* Python truthiness of such an entry
Truthy(o) == ~o.none /\ Len(o.val) > 0

\* lines 112-115: a value without __iter__ is repeated n times
sanitizeFlag(a, n) == IF a.scalar THEN Repeat(n, a.v) ELSE a.l

\* line 116 reads percentiles[0]
percentilesIndexError(p) == p.form # "none" /\ Len(p.flat) = 0 /\ Len(p.nested) = 0

\* lines 116-117
sanitizePercentiles(p, n) ==
    CASE p.form = "none" -> Repeat(n, NoneOpt)
      [] p.form = "flat" -> Repeat(n, SomeOpt(p.flat))
      [] p.form = "nested" -> [i \in 1..Len(p.nested) |-> SomeOpt(p.nested[i])]

\* int(np.sqrt(n))
isqrt(n) == CHOOSE r \in 0..n : r * r <= n /\ n < (r + 1) * (r + 1)

\* lines 138-140: nrow counted down from int(sqrt(n)) to a divisor of n (n > 0)
autoRows(n) ==
    CHOOSE d \in 1..isqrt(n) :
        n % d = 0 /\ \A e \in (d + 1)..isqrt(n) : n % e # 0

psFrame == UNCHANGED knlVars

\* lines 94-109
ParseKind ==
    /\ pc = "parse"
    /\ exc = "none"
    /\ LET r == parseKind(args.kind)
       IN  IF r.ok
           THEN /\ kind' = r.kind
                /\ pc' = "sanitize"
                /\ exc' = exc
           ELSE /\ kind' = kind
                /\ pc' = pc
                /\ exc' = "ValueError"
    /\ UNCHANGED <<args, mean, std, percentiles, naxes, created, idx,
                   artists_scatter, artists_mean, artists_std,
                   artists_percentiles, axlabel>>
    /\ psFrame

\* lines 111-131
Sanitize ==
    /\ pc = "sanitize"
    /\ exc = "none"
    /\ LET n == Len(kind)
           m == sanitizeFlag(args.mean, n)
           s == sanitizeFlag(args.std, n)
           g == args.grid
       IN  IF percentilesIndexError(args.percentiles)
           THEN /\ pc' = pc
                /\ exc' = "IndexError"
                /\ UNCHANGED <<mean, std, percentiles>>
           ELSE LET p == sanitizePercentiles(args.percentiles, n)
                IN  IF \/ Len(m) # n
                       \/ Len(s) # n
                       \/ Len(p) # n
                       \/ (g.given /\ g.ncol * g.nrow < n)
                       \/ args.plot \notin {"auto", "scatter", "hist2d"}
                    THEN /\ pc' = pc
                         /\ exc' = "ValueError"
                         /\ UNCHANGED <<mean, std, percentiles>>
                    ELSE /\ pc' = "axes"
                         /\ exc' = exc
                         /\ mean' = m
                         /\ std' = s
                         /\ percentiles' = p
    /\ UNCHANGED <<args, kind, naxes, created, idx, artists_scatter, artists_mean,
                   artists_std, artists_percentiles, axlabel>>
    /\ psFrame

\* lines 133-157
CreateAxes ==
    /\ pc = "axes"
    /\ exc = "none"
    /\ LET n == Len(kind)
           g == args.grid
           a == args.ax
           divZero == ~a.given /\ ~g.given /\ n = 0
           made == IF a.given \/ divZero THEN 0
                   ELSE IF g.given THEN g.nrow * g.ncol
                   ELSE autoRows(n) * (n \div autoRows(n))
           flat == IF ~a.given THEN made
                   ELSE IF a.scalar THEN 1 ELSE a.count
       IN  /\ created' = made
           /\ IF divZero
              THEN /\ pc' = pc
                   /\ exc' = "ZeroDivisionError"
                   /\ UNCHANGED <<naxes, idx, artists_scatter, artists_mean,
                                  artists_std, artists_percentiles, axlabel>>
              ELSE /\ naxes' = flat
                   /\ axlabel' = Repeat(flat, <<>>)
                   /\ IF flat = 0 \/ flat < n
                      THEN /\ pc' = pc
                           /\ exc' = IF flat = 0 THEN "IndexError" ELSE "ValueError"
                           /\ UNCHANGED <<idx, artists_scatter, artists_mean,
                                          artists_std, artists_percentiles>>
                      ELSE /\ pc' = "artists"
                           /\ exc' = exc
                           /\ idx' = 1
                           /\ artists_scatter' = Repeat(n, FALSE)
                           /\ artists_mean' = Repeat(n, FALSE)
                           /\ artists_std' = Repeat(n, FALSE)
                           /\ artists_percentiles' = Repeat(n, 0)
    /\ UNCHANGED <<args, kind, mean, std, percentiles>>
    /\ psFrame

\* lines 159-201, one pass of the loop over zip(self.kind, self.axflat); the
\* call returns when zip is exhausted (particles is None)
CreateArtists ==
    /\ pc = "artists"
    /\ exc = "none"
    /\ IF idx > Min(Len(kind), naxes)
       THEN /\ pc' = "done"
            /\ UNCHANGED <<idx, artists_scatter, artists_mean, artists_std,
                           artists_percentiles, axlabel, exc>>
       ELSE IF Len(kind[idx].items) # 2
       THEN /\ pc' = pc
            /\ exc' = "ValueError"
            /\ UNCHANGED <<idx, artists_scatter, artists_mean, artists_std,
                           artists_percentiles, axlabel>>
       ELSE /\ pc' = pc
            /\ exc' = exc
            /\ idx' = idx + 1
            /\ artists_scatter' = [artists_scatter EXCEPT ![idx] = TRUE]
            /\ artists_mean' = [artists_mean EXCEPT ![idx] = mean[idx]]
            /\ artists_std' = [artists_std EXCEPT ![idx] = std[idx]]
            /\ artists_percentiles' =
                   [artists_percentiles EXCEPT ![idx] =
                       IF Truthy(percentiles[idx]) THEN Len(percentiles[idx].val)
                       ELSE 0]
            /\ axlabel' = [axlabel EXCEPT ![idx] = kind[idx].items]
    /\ UNCHANGED <<args, kind, mean, std, percentiles, naxes, created>>
    /\ psFrame

InitPhaseSpace ==
    /\ pc = "parse"
    /\ args \in Calls
    /\ kind = <<>>
    /\ mean = <<>>
    /\ std = <<>>
    /\ percentiles = <<>>
    /\ naxes = 0
    /\ created = 0
    /\ idx = 0
    /\ artists_scatter = <<>>
    /\ artists_mean = <<>>
    /\ artists_std = <<>>
    /\ artists_percentiles = <<>>
    /\ axlabel = <<>>
    /\ exc = "none"


(***************************************************************************)
(* Lines.  An element has the attributes the code asks for with hasattr:   *)
(* length, order, knl.  A thick element occupies its length along s; a     *)
(* thin one sits at one position even when it has a length attribute.      *)
(* The positions line.get_s_elements returns are the running sums of the   *)
(* thick lengths, and line.get_length() is their total.                    *)
(***************************************************************************)
Drift ==
    [thick |-> TRUE, hasLength |-> TRUE, length |-> 4,
     hasOrder |-> FALSE, hasKnl |-> FALSE, order |-> 0, knl |-> <<>>]
Marker ==
    [thick |-> FALSE, hasLength |-> FALSE, length |-> 0,
     hasOrder |-> FALSE, hasKnl |-> FALSE, order |-> 0, knl |-> <<>>]
Bend ==
    [thick |-> TRUE, hasLength |-> TRUE, length |-> 4,
     hasOrder |-> TRUE, hasKnl |-> TRUE, order |-> 0, knl |-> <<7>>]
Multipole(len, ord) ==
    [thick |-> FALSE, hasLength |-> TRUE, length |-> len,
     hasOrder |-> TRUE, hasKnl |-> TRUE, order |-> ord,
     knl |-> IF ord = 0 THEN <<3>> ELSE <<3, 5>>]

Shapes == {Drift, Marker, Bend, Multipole(2, 1), Multipole(0, 1)}

RECURSIVE upstream(_, _)
upstream(els, i) ==
    IF i = 1 THEN 0
    ELSE upstream(els, i - 1) + (IF els[i - 1].thick THEN els[i - 1].length ELSE 0)

downstream(els, i) == upstream(els, i) + (IF els[i].thick THEN els[i].length ELSE 0)

MakeLine(els) ==
    [none |-> FALSE,
     elements |-> els,
     s_up |-> [i \in 1..Len(els) |-> upstream(els, i)],
     s_down |-> [i \in 1..Len(els) |-> downstream(els, i)],
     length |-> IF Len(els) = 0 THEN 0 ELSE downstream(els, Len(els))]

\* line = None
NoLine == [none |-> TRUE, elements |-> <<>>, s_up |-> <<>>, s_down |-> <<>>, length |-> 0]

\* the lines of the model: one to MaxElems elements, of positive length
Lines ==
    {l \in {MakeLine(els) : els \in UNION {[1..k -> Shapes] : k \in 1..MaxElems}} :
        l.length > 0}

(***************************************************************************)
(* iter_elements                                                           *)
(***************************************************************************)
\* a variant that yields the upstream / downstream pair of every element
iter_elementsUncentred(line) ==
    [i \in 1..Len(line.elements) |->
        [name |-> i, el |-> line.elements[i], s0 |-> line.s_up[i], s1 |-> line.s_down[i]]]

\* lines 29-35; element_names is modelled by the position in the line
iter_elements(line) ==
    [i \in 1..Len(line.elements) |->
        LET el == line.elements[i]
            s0 == line.s_up[i]
            s1 == line.s_down[i]
        IN  IF s0 = s1 /\ el.hasLength
            THEN [name |-> i, el |-> el,
                  s0 |-> (s0 + s1 - el.length) \div 2,
                  s1 |-> (s0 + s1 + el.length) \div 2]
            ELSE [name |-> i, el |-> el, s0 |-> s0, s1 |-> s1]]

(***************************************************************************)
(* KnlPlot                                                                 *)
(***************************************************************************)
\* knl: None, an int, or a list of ints
KnlNone == [form |-> "none", m |-> 0, l |-> <<>>]
KnlInt(m) == [form |-> "int", m |-> m, l |-> <<>>]
KnlList(l) == [form |-> "list", m |-> 0, l |-> l]
KnlArgs == {KnlNone, KnlInt(0), KnlInt(1), KnlList(<<0>>), KnlList(<<1>>),
            KnlList(<<0, 1>>), KnlList(<<1, 0>>)}

\* line_length: None or a positive number
LengthNone == [given |-> FALSE, v |-> 0]
Length(v) == [given |-> TRUE, v |-> v]
LengthArgs == {LengthNone, Length(4), Length(8)}

Resolutions == {3, 5}

KnlCall(l, k, ll, r, f) ==
    [line |-> l, knl |-> k, line_length |-> ll, resolution |-> r, filled |-> f]

\* range(a) as a list: 0, ..., a - 1
range(a) == [i \in 1..a |-> i - 1]

Max(s) == CHOOSE m \in s : \A x \in s : x <= m

\* line 76: the orders of the elements that have one
elementOrders(line) ==
    {line.elements[i].order : i \in {j \in 1..Len(line.elements) : line.elements[j].hasOrder}}

\* lines 73-75, 80-81 and what lines 76 and 82 raise: "none" when none is raised
initRaises(a) ==
    IF a.knl.form = "none" /\ a.line.none THEN "ValueError"
    ELSE IF a.knl.form = "none" /\ elementOrders(a.line) = {} THEN "ValueError"
    ELSE IF a.line.none /\ ~a.line_length.given THEN "ValueError"
    ELSE IF a.line.none /\ a.line_length.v = 0 THEN "AttributeError"
    ELSE "none"

\* lines 73-79
orders(a) ==
    CASE a.knl.form = "none" -> range(Max(elementOrders(a.line)) + 1)
      [] a.knl.form = "int" -> range(a.knl.m + 1)
      [] a.knl.form = "list" -> a.knl.l

\* line 82: np.linspace(0, line_length or line.get_length(), resolution)
linspace(a) ==
    LET L == IF a.line_length.given /\ a.line_length.v # 0
             THEN a.line_length.v ELSE a.line.length
    IN  [k \in 1..a.resolution |-> ((k - 1) * L) \div (a.resolution - 1)]

\* lines 132-136: whether grid position x is in the mask of an element
mask(x, s0, s1, Smax) ==
    IF 0 <= s0 /\ s0 <= Smax
    THEN x >= s0 /\ x < s1
    ELSE x >= s0 % Smax \/ x < s1 % Smax

\* lines 128-137: KNL[i, k], summed over the first j yielded elements
RECURSIVE accumulate(_, _, _, _, _)
accumulate(ys, j, n, x, Smax) ==
    IF j = 0 THEN 0
    ELSE accumulate(ys, j - 1, n, x, Smax)
         + (IF /\ ys[j].el.hasKnl
               /\ n <= ys[j].el.order
               /\ mask(x, ys[j].s0, ys[j].s1, Smax)
            THEN ys[j].el.knl[n + 1]
            ELSE 0)

\* lines 126-137
KNL(ords, grid, line) ==
    LET ys == iter_elements(line)
    IN  [i \in 1..Len(ords) |->
            [k \in 1..Len(grid) |-> accumulate(ys, Len(ys), ords[i], grid[k], line.length)]]

\* a variant that adds the new values to the data the artists hold
artistDataAdded(prev, ords, grid, line) ==
    [i \in 1..Len(ords) |->
        [k \in 1..Len(grid) |->
            (IF k <= Len(prev[i]) THEN prev[i][k] ELSE 0) + KNL(ords, grid, line)[i][k]]]

\* lines 142-148: the data of each artist is overwritten with its row of KNL
\* (display factors are 1)
artistData(prev, ords, grid, line) == KNL(ords, grid, line)

knlFrame == UNCHANGED psVars

\* lines 71-115: the constructor, with its call of update when a line is given
KnlInit ==
    /\ kpc = "new"
    /\ LET r == initRaises(kargs)
       IN  IF r # "none"
           THEN /\ kpc' = "raised"
                /\ kexc' = r
                /\ UNCHANGED <<knl, S, artists, shown, yielded, lastLine, updated>>
           ELSE LET o == orders(kargs)
                    g == linspace(kargs)
                    blank == [i \in 1..Len(o) |->
                                 IF kargs.filled THEN Repeat(Len(g), 0) ELSE <<>>]
                IN  /\ kpc' = "ready"
                    /\ kexc' = kexc
                    /\ knl' = o
                    /\ S' = g
                    /\ artists' = Len(o)
                    /\ IF kargs.line.none
                       THEN /\ shown' = blank
                            /\ UNCHANGED <<yielded, lastLine, updated>>
                       ELSE /\ shown' = artistData(blank, o, g, kargs.line)
                            /\ yielded' = iter_elements(kargs.line)
                            /\ lastLine' = kargs.line
                            /\ updated' = "once"
    /\ UNCHANGED kargs
    /\ knlFrame

\* lines 117-160
Update(line) ==
    /\ kpc = "ready"
    /\ shown' = artistData(shown, knl, S, line)
    /\ yielded' = iter_elements(line)
    /\ lastLine' = line
    /\ updated' = IF updated = "never" THEN "once" ELSE "again"
    /\ UNCHANGED <<kpc, kargs, knl, S, artists, kexc>>
    /\ knlFrame

KnlIdle ==
    /\ kpc = "new"
    /\ knl = <<>>
    /\ S = <<>>
    /\ artists = 0
    /\ shown = <<>>
    /\ yielded = <<>>
    /\ lastLine = NoLine
    /\ updated = "never"
    /\ kexc = "none"

\* every combination of arguments of the constructor
KnlCalls ==
    {KnlCall(l, k, ll, r, f) :
        l \in Lines \cup {NoLine}, k \in KnlArgs, ll \in LengthArgs,
        r \in Resolutions, f \in BOOLEAN}

\* the constructor calls that are followed by update calls
KnlCallsUpdated ==
    {KnlCall(l, k, ll, r, f) :
        l \in {NoLine, MakeLine(<<Multipole(2, 1), Drift>>)},
        k \in {KnlNone, KnlList(<<1, 0>>)},
        ll \in {LengthNone, Length(8)}, r \in Resolutions, f \in BOOLEAN}

(***************************************************************************)
(* Specifications.                                                         *)
(***************************************************************************)
PhaseSpaceIdle ==
    /\ pc = "idle"
    /\ args = Call(PlainKind(0), Scalar(FALSE), Scalar(FALSE), PercNone, AxNone,
                   GridNone, "auto")
    /\ kind = <<>>
    /\ mean = <<>>
    /\ std = <<>>
    /\ percentiles = <<>>
    /\ naxes = 0
    /\ created = 0
    /\ idx = 0
    /\ artists_scatter = <<>>
    /\ artists_mean = <<>>
    /\ artists_std = <<>>
    /\ artists_percentiles = <<>>
    /\ axlabel = <<>>
    /\ exc = "none"

\* one call of PhaseSpacePlot(...)
InitPS == InitPhaseSpace /\ KnlIdle /\ kargs = KnlCall(NoLine, KnlNone, LengthNone, 3, TRUE)
NextPS == ParseKind \/ Sanitize \/ CreateAxes \/ CreateArtists
SpecPhaseSpace == InitPS /\ [][NextPS]_vars

\* one call of KnlPlot(...)
InitKnlInit == PhaseSpaceIdle /\ KnlIdle /\ kargs \in KnlCalls
NextKnlInit == KnlInit
SpecKnlInit == InitKnlInit /\ [][NextKnlInit]_vars

\* a KnlPlot and the update calls made on it
InitKnl == PhaseSpaceIdle /\ KnlIdle /\ kargs \in KnlCallsUpdated
NextKnl == KnlInit \/ \E line \in Lines : Update(line)
SpecKnl == InitKnl /\ [][NextKnl]_vars


(***************************************************************************)
(* Properties of PhaseSpacePlot.__init__ (SpecPhaseSpace).                 *)
(***************************************************************************)
raised == exc # "none"

\* self.kind has been set (line 108 was reached)
kindParsed == pc # "parse"

\* the coordinates of each subplot, whatever the container
Pairs(k) == [i \in 1..Len(k) |-> k[i].items]

RECURSIVE join(_, _)
\* sep.join(fields)
join(fields, sep) ==
    IF Len(fields) = 0 THEN <<>>
    ELSE IF Len(fields) = 1 THEN fields[1]
    ELSE fields[1] \o <<sep>> \o join(Tail(fields), sep)

\* the table of abbreviations as the documentation gives it
DocumentedPair(k) ==
    CASE k = <<"x">> -> << <<"x">>, <<"p", "x">> >>
      [] k = <<"y">> -> << <<"y">>, <<"p", "y">> >>
      [] k = <<"z">> -> << <<"z", "e", "t", "a">>, <<"d", "e", "l", "t", "a">> >>
      [] k = <<"X">> -> << <<"X">>, <<"P", "x">> >>
      [] k = <<"Y">> -> << <<"Y">>, <<"P", "y">> >>
DocumentedKeys == {<<"x">>, <<"y">>, <<"z">>, <<"X">>, <<"Y">>}

SeparatorFree(name) == \A i \in 1..Len(name) : name[i] \notin {",", "-"}

\* A parsed entry e is what the string s denotes: s is the abbreviation of
\* e's pair, or s is e's two coordinates joined by '-'.
Denotes(s, e) ==
    /\ Len(e.items) = 2
    /\ IF e.tuple
       THEN s \in DocumentedKeys /\ e.items = DocumentedPair(s)
       ELSE /\ s = join(e.items, "-")
            /\ SeparatorFree(e.items[1])
            /\ SeparatorFree(e.items[2])

\* the written form of a parsed entry: the abbreviation whose documented pair
\* it is, or its coordinates joined by '-'
Written(e) ==
    IF e.tuple /\ \E k \in DocumentedKeys : DocumentedPair(k) = e.items
    THEN CHOOSE k \in DocumentedKeys : DocumentedPair(k) = e.items
    ELSE join(e.items, "-")

\* the nested list of the pairs of self.kind, given as a kind argument
AsNestedList(k) == KindList([i \in 1..Len(k) |-> ListEntry(k[i].items)])

BadEntry ==
    \E i \in 1..Len(kindEntries(args.kind)) :
        LET items == parseEntry(kindEntries(args.kind)[i]).items
        IN  \/ Len(items) >= 3
            \/ Len(items) = 1 /\ items[1] \notin DocumentedKeys

NoArtists ==
    /\ \A i \in 1..Len(artists_scatter) : ~artists_scatter[i]
    /\ \A i \in 1..Len(axlabel) : axlabel[i] = <<>>

\* C2: construction raises ValueError or ends with two coordinates in every
\* entry of self.kind, and a kind with an entry of one (unabbreviated) or of
\* three or more coordinates is rejected with ValueError before any axes or
\* artists are created.
C2_TwoCoordinates ==
    /\ (pc = "done" => \A i \in 1..Len(kind) : Len(kind[i].items) = 2)
    /\ (BadEntry => created = 0 /\ NoArtists)
    /\ (BadEntry /\ raised => exc = "ValueError")
    /\ (BadEntry => pc # "done")

\* the lists given for mean, std and percentiles have one entry per subplot
FlagFits(a, n) == a.scalar \/ Len(a.l) = n
PercentilesFit(p, n) == p.form \in {"none", "flat"} \/ Len(p.nested) = n

\* what the documentation makes of the three arguments for n subplots
DocumentedFlags(a, n) == IF a.scalar THEN [i \in 1..n |-> a.v] ELSE a.l
DocumentedPercentiles(p, n) ==
    CASE p.form = "none" -> [i \in 1..n |-> 0]
      [] p.form = "flat" -> [i \in 1..n |-> Len(p.flat)]
      [] p.form = "nested" -> [i \in 1..Len(p.nested) |-> Len(p.nested[i])]

\* C3: (for calls with the default grid and plot) mean, std and percentiles
\* are rejected, with ValueError, exactly when a list has not one entry per
\* subplot; otherwise each ends with n entries, a scalar or flat list applied
\* to every subplot, and subplot i gets its mean marker, std ellipse and one
\* ellipse per percentile exactly when its entry is truthy.
C3_PerSubplotOptions ==
    (~args.grid.given /\ args.plot = "auto") =>
        LET n == Len(kind)
            fits == /\ FlagFits(args.mean, n)
                    /\ FlagFits(args.std, n)
                    /\ PercentilesFit(args.percentiles, n)
        IN  /\ (pc = "sanitize" /\ raised => exc = "ValueError" /\ ~fits)
            /\ (pc \in {"axes", "artists", "done"} =>
                    /\ fits
                    /\ mean = DocumentedFlags(args.mean, n)
                    /\ std = DocumentedFlags(args.std, n)
                    /\ Len(percentiles) = n)
            /\ (pc = "done" =>
                    \A i \in 1..n :
                        /\ artists_mean[i] = DocumentedFlags(args.mean, n)[i]
                        /\ artists_std[i] = DocumentedFlags(args.std, n)[i]
                        /\ artists_percentiles[i] =
                               DocumentedPercentiles(args.percentiles, n)[i])

\* C4: when ax is passed, construction raises ValueError unless the number of
\* axes is the number of subplots, and on success every subplot has its axes
\* and every axes its subplot.
C4_AxesMatchSubplots ==
    args.ax.given =>
        /\ (pc \in {"artists", "done"} => naxes = Len(kind))
        /\ (pc = "axes" /\ raised => exc = "ValueError")
        /\ (pc = "done" =>
                /\ \A i \in 1..Len(kind) : artists_scatter[i]
                /\ \A a \in 1..naxes : axlabel[a] # <<>>)

(***************************************************************************)
(* Properties of KnlPlot.__init__ (SpecKnlInit).                           *)
(***************************************************************************)
\* the orders the documentation selects
DocumentedOrders(a) ==
    CASE a.knl.form = "int" -> [i \in 1..(a.knl.m + 1) |-> i - 1]
      [] a.knl.form = "list" -> a.knl.l
      [] a.knl.form = "none" ->
            IF elementOrders(a.line) = {} THEN <<>>
            ELSE [i \in 1..(Max(elementOrders(a.line)) + 1) |-> i - 1]

\* C5: construction raises ValueError when line and knl are both None and
\* when line and line_length are both None; in every other case it succeeds,
\* self.knl being the selected orders, with one artist per order.
C5_OrderSelection ==
    kpc # "new" =>
        IF \/ (kargs.line.none /\ kargs.knl.form = "none")
           \/ (kargs.line.none /\ ~kargs.line_length.given)
        THEN kpc = "raised" /\ kexc = "ValueError"
        ELSE /\ kpc = "ready"
             /\ knl = DocumentedOrders(kargs)
             /\ artists = Len(knl)

(***************************************************************************)
(* Properties of KnlPlot.update and iter_elements (SpecKnl).               *)
(***************************************************************************)
RECURSIVE SumKnl(_, _, _)
\* the sum of el.knl[n] over the yielded elements with index in J
SumKnl(ys, J, n) ==
    IF J = {} THEN 0
    ELSE LET j == CHOOSE x \in J : TRUE
         IN  ys[j].el.knl[n + 1] + SumKnl(ys, J \ {j}, n)

\* the yielded elements that have knl values of order n
WithOrder(ys, n) == {j \in 1..Len(ys) : ys[j].el.hasKnl /\ ys[j].el.order >= n}

\* x lies in the half-open extent of the yielded element y
InExtent(y, x) == y.s0 <= x /\ x < y.s1

\* x lies in the extent of y taken modulo the length of the line
InExtentModulo(y, x, Smax) == \E m \in -4..4 : InExtent(y, x + m * Smax)

\* the extent of y reaches outside [0, Smax]
ReachesOutside(y, Smax) == y.s0 < 0 \/ y.s1 > Smax

\* the extent of y starts inside [0, Smax]
StartsInside(y, Smax) == 0 <= y.s0 /\ y.s0 <= Smax

hasData == kpc = "ready" /\ ~lastLine.none

\* C6 as stated: the value for order n at S[k] is the sum of el.knl[n] over the
\* elements of the last line with knl, order >= n and s0 <= S[k] < s1.
C6_SumOverExtents ==
    hasData =>
        \A i \in 1..Len(knl) : \A k \in 1..Len(S) :
            shown[i][k] =
                SumKnl(yielded,
                       {j \in WithOrder(yielded, knl[i]) : InExtent(yielded[j], S[k])},
                       knl[i])

\* C6 amended: the value for order n at S[k] is the sum of el.knl[n] over the
\* elements of the last line with knl and order >= n for which: s0 <= S[k] < s1
\* if the element starts inside [0, Smax]; and S[k] >= s0 mod Smax or
\* S[k] < s1 mod Smax if it starts outside.  Nothing of earlier updates remains.
C6_SumOverMasks ==
    hasData =>
        \A i \in 1..Len(knl) : \A k \in 1..Len(S) :
            shown[i][k] =
                SumKnl(yielded,
                       {j \in WithOrder(yielded, knl[i]) :
                           IF StartsInside(yielded[j], lastLine.length)
                           THEN InExtent(yielded[j], S[k])
                           ELSE \/ S[k] >= yielded[j].s0 % lastLine.length
                                \/ S[k] < yielded[j].s1 % lastLine.length},
                       knl[i])

\* after a second update, two overlapping elements add up (3 + 7) at a grid
\* point
C6_Witness ==
    /\ hasData
    /\ updated = "again"
    /\ \E i \in 1..Len(knl) : \E k \in 1..Len(S) : knl[i] = 0 /\ shown[i][k] = 10

\* C7: (the grid spanning the line) an element whose extent reaches outside
\* [0, Smax] contributes at exactly the grid points that lie in the extent
\* taken modulo Smax; the other elements at the grid points in their extent.
C7_WrapAround ==
    (hasData /\ S[Len(S)] = lastLine.length) =>
        \A i \in 1..Len(knl) : \A k \in 1..Len(S) :
            shown[i][k] =
                SumKnl(yielded,
                       {j \in WithOrder(yielded, knl[i]) :
                           IF ReachesOutside(yielded[j], lastLine.length)
                           THEN InExtentModulo(yielded[j], S[k], lastLine.length)
                           ELSE InExtent(yielded[j], S[k])},
                       knl[i])

\* C8: iter_elements yields one tuple per element, in line order; a thin
\* element at s with a length L is yielded with s_from = s - L/2 and
\* s_to = s + L/2, every other element with its upstream and downstream
\* positions; s_from <= s_to.
C8_IterElements ==
    hasData =>
        /\ Len(yielded) = Len(lastLine.elements)
        /\ \A i \in 1..Len(yielded) :
               LET y == yielded[i]
                   el == lastLine.elements[i]
                   up == lastLine.s_up[i]
                   down == lastLine.s_down[i]
               IN  /\ y.name = i
                   /\ y.el = el
                   /\ IF up = down /\ el.hasLength
                      THEN 2 * y.s0 = 2 * up - el.length /\ 2 * y.s1 = 2 * up + el.length
                      ELSE y.s0 = up /\ y.s1 = down
                   /\ y.s0 <= y.s1

\* a line with a centred thin element before its start, a thick element and a
\* thin element without length has been iterated
C8_Witness ==
    /\ hasData
    /\ \E i \in 1..Len(yielded) :
           yielded[i].s0 < lastLine.s_up[i] /\ yielded[i].s1 > lastLine.s_down[i]
    /\ \E i \in 1..Len(yielded) :
           lastLine.elements[i].thick /\ yielded[i].s1 - yielded[i].s0 = 4

=============================================================================
